---- MODULE Spec2Model ----
(***************************************************************************)
(* Model of Data/Image Data/Scripts/create_images.py: the routine          *)
(* download_and_resize_image (validation, retry loop, decode/resize/save)  *)
(* and the driver loop that reads the CSV rows, calls it for each row,     *)
(* keeps the failure ledger failed_log and paces the requests.             *)
(*                                                                         *)
(* Strings are sequences of one-character strings, so that str.replace,    *)
(* str.strip, str.startswith, urllib.parse.quote and os.path.join are      *)
(* computed character by character as the library computes them.           *)
(*                                                                         *)
(* Two specifications:                                                     *)
(*   Spec      the script: the driver loop over the rows of a CSV file,    *)
(*             every call made with the default retries = 3;               *)
(*   SpecCall  one call of download_and_resize_image with arguments        *)
(*             (url, bird_name, retries) drawn from bounded sets.          *)
(***************************************************************************)
EXTENDS Integers, Sequences, FiniteSets, TLC

VARIABLES
    pc,           \* position of the control thread
    rows,         \* the CSV rows read so far by the driver, as read (history)
    results,      \* what each finished call returned, in call order (history)
    failed_log,   \* the failure ledger (line 53)
    dirs,         \* filesystem: the directories that exist (resolved paths)
    files,        \* filesystem: resolved path -> content of each regular file
    bird_name,    \* argument of the current call
    url,          \* argument of the current call
    retries,      \* argument of the current call
    attempt,      \* loop variable of "for attempt in range(retries)"
    output_path,  \* local of the current call; <<>> while unassigned
    ok,           \* the value the current call returned
    gets,         \* requests.get calls issued by the current call (history)
    sleeps,       \* time.sleep(1.0) calls made by the current call (history)
    log,          \* outcome of each attempt of the current call (history)
    delays,       \* time.sleep(0.3) calls made by the driver (history)
    raised,       \* the exception that ended the script, "none" while running
    last_response, \* what the latest requests.get of the current call gave (history)
    files_at_call, \* the files as they were when the current call began (history)
    run,          \* 0: the script is run once; 1, 2: first and second of two runs
    first,        \* what the first of two runs read and left behind (history)
    served,       \* what the network and the disk did at each request of run 1
    cursor        \* requests issued so far in the current one of two runs

vars == <<pc, rows, results, failed_log, dirs, files, bird_name, url, retries,
          attempt, output_path, ok, gets, sleeps, log, delays, raised,
          last_response, files_at_call, run, first, served, cursor>>

-----------------------------------------------------------------------------
(* Bounds of the model *)

MaxRecords == 3     \* longest CSV file the driver specification reads
MaxRetries == 3     \* largest retries argument of the single-call specification
MaxRecordsTwice == 2  \* longest CSV file of the specification that runs the script twice
MaxRecordsFair == 2   \* longest CSV file of the specification with fairness
MaxFaultsTwice == 3   \* most attempts the environment lets fail in the first of two runs

-----------------------------------------------------------------------------
(* String library, character by character *)

SPACE == " "
TAB == "\t"
SLASH == "/"

\* str.strip() removes these from both ends
WhitespaceChars == {SPACE, TAB, "\n", "\r"}

\* what a mis-written replace would do: only the first occurrence is replaced
ReplaceFirstOnly(s, old, new) ==
    [i \in 1..Len(s) |->
        IF s[i] = old /\ (\A j \in 1..(i-1) : s[j] # old) THEN new ELSE s[i]]

\* str.replace(old, new) for one-character old and new: every occurrence
Replace(s, old, new) ==
    [i \in 1..Len(s) |-> IF s[i] = old THEN new ELSE s[i]]

RECURSIVE LStrip(_)
LStrip(s) ==
    IF s # <<>> /\ Head(s) \in WhitespaceChars THEN LStrip(Tail(s)) ELSE s

RECURSIVE RStrip(_)
RStrip(s) ==
    IF s # <<>> /\ s[Len(s)] \in WhitespaceChars
    THEN RStrip(SubSeq(s, 1, Len(s) - 1))
    ELSE s

\* str.strip()
Strip(s) == RStrip(LStrip(s))

\* str.startswith(prefix)
StartsWith(s, prefix) ==
    Len(s) >= Len(prefix) /\ SubSeq(s, 1, Len(prefix)) = prefix

EndsWith(s, c) == s # <<>> /\ s[Len(s)] = c

\* os.path.join(a, b) of posixpath, two components
Join(a, b) ==
    IF StartsWith(b, <<SLASH>>) THEN b
    ELSE IF a = <<>> \/ EndsWith(a, SLASH) THEN a \o b
    ELSE a \o <<SLASH>> \o b

\* characters urllib.parse.quote never escapes, among those the model uses
AlwaysSafe ==
    {"a", "b", "f", "h", "p", "t", "x", "_", ".", "-", "~"}

\* safe = "/:%?=&" (line 32)
QuoteSafe == {"/", ":", "%", "?", "=", "&"}

\* percent-encoding of one escaped character (its UTF-8 byte in hex)
PercentEncode(c) ==
    CASE c = SPACE -> <<"%", "2", "0">>
      [] c = TAB   -> <<"%", "0", "9">>
      [] c = "\n"  -> <<"%", "0", "A">>
      [] c = "\r"  -> <<"%", "0", "D">>

RECURSIVE Quote(_)
\* urllib.parse.quote(url, safe = "/:%?=&")
Quote(s) ==
    IF s = <<>> THEN <<>>
    ELSE (IF Head(s) \in AlwaysSafe \cup QuoteSafe
          THEN <<Head(s)>>
          ELSE PercentEncode(Head(s))) \o Quote(Tail(s))

-----------------------------------------------------------------------------
(* Filesystem: a path resolves to the sequence of its components *)

RECURSIVE SplitAcc(_, _, _)
SplitAcc(s, cur, acc) ==
    IF s = <<>> THEN (IF cur = <<>> THEN acc ELSE Append(acc, cur))
    ELSE IF Head(s) = SLASH
         THEN SplitAcc(Tail(s), <<>>, IF cur = <<>> THEN acc ELSE Append(acc, cur))
         ELSE SplitAcc(Tail(s), Append(cur, Head(s)), acc)

\* the components of a path; an absolute path starts with the component "/"
Resolve(path) ==
    (IF StartsWith(path, <<SLASH>>) THEN <<(<<SLASH>>)>> ELSE <<>>)
        \o SplitAcc(path, <<>>, <<>>)

Prefixes(rp) == {SubSeq(rp, 1, k) : k \in 1..Len(rp)}

ProperPrefixes(rp) == {SubSeq(rp, 1, k) : k \in 1..(Len(rp) - 1)}

IsFile(rp) == rp \in DOMAIN files

IsDir(rp) == rp \in dirs \/ rp = <<(<<SLASH>>)>>

\* os.makedirs(path) without exist_ok: an existing directory raises too
MakedirsRaisesIfExists(path) ==
    \/ \E p \in Prefixes(Resolve(path)) : IsFile(p)
    \/ IsDir(Resolve(path))

\* os.makedirs(path, exist_ok = True) raises when a component is a regular file
MakedirsRaises(path) == \E p \in Prefixes(Resolve(path)) : IsFile(p)

\* a makedirs that creates nothing
MakedirsDirsNothing(path) == dirs

\* the directories that exist after os.makedirs(path, exist_ok = True)
MakedirsDirs(path) == dirs \cup Prefixes(Resolve(path))

-----------------------------------------------------------------------------
(* Program constants and the locals of download_and_resize_image *)

base_dir == <<"I", "m", "a", "g", "e", "s">>

DefaultRetries == 3

JpgSuffix == <<".", "j", "p", "g">>

HttpPrefix == <<"h", "t", "t", "p">>

\* line 25
FolderName(name) == Replace(name, SPACE, "_")

\* line 26
Subfolder(name) == Join(base_dir, FolderName(name))

\* line 33
OutputPath(name) == Join(Subfolder(name), FolderName(name) \o JpgSuffix)

\* what a validation that tested only for emptiness would accept
IsValidUrlNonEmptyOnly(u) == u # <<>>

\* line 29, negated: the url passes validation
IsValidUrl(u) == u # <<>> /\ StartsWith(u, HttpPrefix)

\* a loop that runs once more than range(retries)
RangeLenOneMore(r) == IF r < 0 THEN 0 ELSE r + 1

\* a loop that runs once less than range(retries)
RangeLenOneLess(r) == IF r < 1 THEN 0 ELSE r - 1

\* range(retries): the number of iterations of the loop of line 35
RangeLen(r) == IF r < 0 THEN 0 ELSE r

-----------------------------------------------------------------------------
(* The environment: the remote server, the image decoder, the disk *)

\* what requests.get(safe_url, ...) can produce: an exception (connection
\* error, timeout) or a response with a status code and a body
Responses(safe_url) ==
    {[kind |-> "exception", status_code |-> 0, image |-> FALSE, of |-> <<>>]}
    \cup {[kind |-> "response", status_code |-> c, image |-> b,
           of |-> IF b THEN safe_url ELSE <<>>] : c \in {200, 500}, b \in BOOLEAN}

\* Image.open(...).convert("RGB").resize(size, LANCZOS): the decoded and
\* resized picture of a body that is an image
Transformed(response) == [fmt |-> "JPEG", of |-> response.of]

\* what a failed save can leave at the path: the file opened and truncated
PartialFile == [fmt |-> "truncated", of |-> <<>>]

\* img.save(path, "JPEG", quality = 90): the possible results on the
\* filesystem fs = files. "saved" writes the picture; "failed" raises with
\* the filesystem unchanged (the open failed); "partial" raises after the
\* file was opened for writing.
SaveOutcomes(path) ==
    IF IsDir(Resolve(path)) \/ Resolve(path) = <<>>
          \/ (\E p \in ProperPrefixes(Resolve(path)) : ~IsDir(p))
    THEN {"failed"}
    ELSE {"saved", "failed", "partial"}

\* a save that leaves an existing file alone
WriteFileUnlessExists(rp, content) ==
    [p \in DOMAIN files \cup {rp} |-> IF p \in DOMAIN files THEN files[p] ELSE content]

WriteFile(rp, content) ==
    [p \in DOMAIN files \cup {rp} |-> IF p = rp THEN content ELSE files[p]]

-----------------------------------------------------------------------------
(* Inputs *)

Str(v) == [kind |-> "str", val |-> v]

\* a field of a row shorter than the header: csv.DictReader fills it with None
NoneField == [kind |-> "none", val |-> <<>>]

\* a column the header does not have: the key is absent from the row
AbsentField == [kind |-> "absent", val |-> <<>>]

Row(n, u) == [scientific_name |-> n, image_url |-> u]

NameAB == <<"a", " ", "b">>
NameA_B == <<"a", "_", "b">>
NameInside == <<"a", "_", "b", "/", "a", "_", "b", ".", "j", "p", "g">>
NameTurdus == <<"T", "u", "r", "d", "u", "s", " ", "m", "e", "r", "u", "l", "a">>
UrlA == <<"h", "t", "t", "p", ":", "/", "/", "a">>
UrlB == <<"h", "t", "t", "p", ":", "/", "/", "b">>
UrlFtp == <<"f", "t", "p", ":", "/", "/", "x">>

\* the rows a CSV file of the driver specification is made of
Rows ==
    { Row(Str(NameAB), Str(<<SPACE>> \o UrlA)),
      Row(Str(NameA_B), Str(UrlB)),
      Row(Str(NameAB), Str(UrlFtp)),
      Row(Str(<<SPACE>>), Str(<<>>)),
      Row(AbsentField, AbsentField),
      Row(Str(NameAB), NoneField),
      Row(Str(NameInside), Str(UrlA)),
      Row(Str(<<"x">>), Str(UrlB)) }

\* the rows a CSV file of the two-run specification is made of
RowsTwice ==
    { Row(Str(NameAB), Str(<<SPACE>> \o UrlA)),
      Row(Str(NameA_B), Str(UrlB)),
      Row(Str(NameAB), Str(UrlFtp)),
      Row(Str(NameAB), NoneField),
      Row(Str(NameInside), Str(UrlA)) }

\* the arguments of the single-call specification
CallNames ==
    { <<>>, NameAB, <<"a", " ", " ", "b">>, <<"a", TAB, "b">>,
      <<"/", "x">>, <<"x", "/">>, NameTurdus }

CallUrls ==
    { <<>>, UrlFtp, <<"h", "t", "t">>, HttpPrefix, UrlA,
      <<"h", "t", "t", "p", ":", "/", "/", "a", " ", "b">> }

CallRetries == (0 - 1)..MaxRetries

-----------------------------------------------------------------------------
(* download_and_resize_image, lines 24-50 *)

CallLocals == <<bird_name, url, retries>>
DriverState == <<rows, failed_log, delays>>
Runs == <<run, first>>
Replay == <<served, cursor>>

\* no request made yet
NoResponse == [kind |-> "none", status_code |-> 0, image |-> FALSE, of |-> <<>>]

\* The second of two runs meets the environment of the first: its i-th request
\* is answered as the i-th request of the first run was, and the save that
\* follows ends as it did then, where the filesystem allows that result.
SameAsFirstRun(response, saved, path) ==
    (run = 2 /\ cursor < Len(served)) =>
        LET was == served[cursor + 1]
        IN  /\ response = was.response
            /\ \/ was.saved = "none"
               \/ saved = was.saved
               \/ (was.saved \notin SaveOutcomes(path) /\ saved = "failed")

\* The first of two runs meets an environment that lets at most
\* MaxFaultsTwice attempts fail: once that many have failed, every request is
\* answered 200 with an image and every save succeeds that the filesystem
\* allows to succeed.
WithinFaults(response, saved, path) ==
    (run = 1 /\ Cardinality({i \in 1..Len(served) : served[i].saved # "saved"})
                  >= MaxFaultsTwice) =>
        /\ response.kind = "response"
        /\ response.status_code = 200
        /\ response.image
        /\ (saved = "saved" \/ "saved" \notin SaveOutcomes(path))

\* what a request of the first of two runs leaves on record
Served(response, saved) ==
    [response |-> response,
     saved |-> IF response.kind = "response" /\ response.status_code = 200
                  /\ response.image
               THEN saved ELSE "none"]

\* lines 25-27: the entity's folder is created before anything else; an
\* exception of os.makedirs is caught nowhere and ends the script
Makedirs ==
    /\ pc = "makedirs"
    /\ IF MakedirsRaises(Subfolder(bird_name))
       THEN /\ pc' = "crashed"
            /\ raised' = "FileExistsError"
            /\ dirs' = dirs
       ELSE /\ pc' = "validate"
            /\ raised' = raised
            /\ dirs' = MakedirsDirs(Subfolder(bird_name))
    /\ UNCHANGED <<CallLocals, DriverState, results, files, attempt,
                   output_path, ok, gets, sleeps, log>>
    /\ UNCHANGED <<last_response, files_at_call, Runs, Replay>>

\* lines 29-33: url validation, then the escaped url and the output path
Validate ==
    /\ pc = "validate"
    /\ IF ~IsValidUrl(url)
       THEN /\ pc' = "returned"
            /\ ok' = FALSE
            /\ results' = Append(results, FALSE)
            /\ output_path' = output_path
       ELSE /\ pc' = "loop"
            /\ output_path' = OutputPath(bird_name)
            /\ UNCHANGED <<ok, results>>
    /\ attempt' = 0
    /\ UNCHANGED <<CallLocals, DriverState, dirs, files, gets, sleeps, log, raised>>
    /\ UNCHANGED <<last_response, files_at_call, Runs, Replay>>

\* where control goes after an attempt: line 45 returns, line 47 catches
AfterAttemptIgnoreSuccess(outcome) == "except"

AfterAttempt(outcome) == IF outcome = "ok" THEN "returned" ELSE "except"

\* an attempt without the status test of lines 38-39
AttemptOutcomeNoStatusTest(response, saved) ==
    IF response.kind = "exception" THEN "net"
    ELSE IF ~response.image THEN "decode"
    ELSE IF saved # "saved" THEN "write"
    ELSE "ok"

\* the outcome of lines 37-43 for a response and a result of img.save
AttemptOutcome(response, saved) ==
    IF response.kind = "exception" THEN "net"
    ELSE IF response.status_code # 200 THEN "http"
    ELSE IF ~response.image THEN "decode"
    ELSE IF saved # "saved" THEN "write"
    ELSE "ok"

\* an attempt that opens the output file for writing before it has an image
FilesAfterAttemptOpenedFirst(outcome, saved, rp, response) ==
    IF outcome = "ok" THEN WriteFile(rp, Transformed(response))
    ELSE IF rp \in dirs \/ (\E p \in ProperPrefixes(rp) : ~IsDir(p)) THEN files
    ELSE WriteFile(rp, PartialFile)

\* line 43, or nothing: the files after an attempt. Only an attempt that got
\* as far as img.save touches a file.
FilesAfterAttempt(outcome, saved, rp, response) ==
    IF outcome = "ok" THEN WriteFile(rp, Transformed(response))
    ELSE IF outcome = "write" /\ saved = "partial"
         THEN WriteFile(rp, PartialFile)
         ELSE files

\* lines 35-45: one iteration of the loop up to its return or its exception
Attempt ==
    /\ pc = "loop"
    /\ attempt < RangeLen(retries)
    /\ \E response \in Responses(Quote(url)), saved \in SaveOutcomes(output_path) :
         LET outcome == AttemptOutcome(response, saved)
             rp == Resolve(output_path)
         IN  /\ SameAsFirstRun(response, saved, output_path)
             /\ WithinFaults(response, saved, output_path)
             /\ gets' = gets + 1
             /\ log' = Append(log, outcome)
             /\ last_response' = response
             /\ served' = IF run = 1 THEN Append(served, Served(response, saved))
                          ELSE served
             /\ cursor' = IF run = 0 THEN cursor ELSE cursor + 1
             /\ files' = FilesAfterAttempt(outcome, saved, rp, response)
             /\ pc' = AfterAttempt(outcome)
             /\ IF AfterAttempt(outcome) = "returned"
                THEN ok' = TRUE /\ results' = Append(results, TRUE)
                ELSE UNCHANGED <<ok, results>>
    /\ UNCHANGED <<CallLocals, DriverState, dirs, attempt, output_path, sleeps, raised>>
    /\ UNCHANGED <<files_at_call, Runs>>

\* a loop whose counter advances only after a failed request
NextAttemptRequestFailuresOnly(a, outcome) ==
    IF outcome \in {"net", "http"} THEN a + 1 ELSE a

\* a loop whose counter never advances
NextAttemptNever(a, outcome) == a

\* line 35: the next value of the loop variable, whatever line 47 caught
NextAttempt(a, outcome) == a + 1

\* a handler that does not sleep when no attempt is left
BackoffUnlessLast ==
    /\ pc = "except"
    /\ sleeps' = IF attempt + 1 < RangeLen(retries) THEN sleeps + 1 ELSE sleeps
    /\ attempt' = NextAttempt(attempt, log[Len(log)])
    /\ pc' = "loop"
    /\ UNCHANGED <<CallLocals, DriverState, results, dirs, files, output_path,
                   ok, gets, log, raised>>
    /\ UNCHANGED <<last_response, files_at_call, Runs, Replay>>

\* lines 47-48: the handler sleeps, then the loop takes its next value
Backoff ==
    /\ pc = "except"
    /\ sleeps' = sleeps + 1
    /\ attempt' = NextAttempt(attempt, log[Len(log)])
    /\ pc' = "loop"
    /\ UNCHANGED <<CallLocals, DriverState, results, dirs, files, output_path,
                   ok, gets, log, raised>>
    /\ UNCHANGED <<last_response, files_at_call, Runs, Replay>>

\* line 50: the loop is over
Exhausted ==
    /\ pc = "loop"
    /\ attempt >= RangeLen(retries)
    /\ pc' = "returned"
    /\ ok' = FALSE
    /\ results' = Append(results, FALSE)
    /\ UNCHANGED <<CallLocals, DriverState, dirs, files, attempt, output_path,
                   gets, sleeps, log, raised>>
    /\ UNCHANGED <<last_response, files_at_call, Runs, Replay>>

-----------------------------------------------------------------------------
(* The driver, lines 53-65 *)

\* row.get(key, ""): the default only when the key is absent
RowGet(row, key) == IF row[key].kind = "absent" THEN Str(<<>>) ELSE row[key]

\* a driver that records every record, failed or not
ShouldLogAlways(okv) == TRUE

\* line 62
ShouldLog(okv) == ~okv

\* line 63
LedgerEntry(name, u) == [scientific_name |-> name, image_url |-> u]

\* the longest file the reader can deliver: the second of two runs reads the
\* file the first run read
InputLimit ==
    CASE run = 0 -> MaxRecords
      [] run = 1 -> MaxRecordsTwice
      [] run = 2 -> Len(first.rows)

\* the rows the reader can deliver next
InputRows ==
    CASE run = 0 -> Rows
      [] run = 1 -> RowsTwice
      [] run = 2 -> {first.rows[Len(rows) + 1]}

\* lines 57-61: the next row is read, its two fields stripped, the call made;
\* .strip() of None raises AttributeError, which ends the script
ReadRow ==
    /\ pc = "next_row"
    /\ Len(rows) < InputLimit
    /\ \E row \in InputRows :
         LET n == RowGet(row, "scientific_name")
             u == RowGet(row, "image_url")
         IN  /\ rows' = Append(rows, row)
             /\ IF n.kind = "none" \/ u.kind = "none"
                THEN /\ pc' = "crashed"
                     /\ raised' = "AttributeError"
                     /\ UNCHANGED <<CallLocals, attempt, output_path, gets,
                                    sleeps, log>>
                ELSE /\ pc' = "makedirs"
                     /\ raised' = raised
                     /\ bird_name' = Strip(n.val)
                     /\ url' = Strip(u.val)
                     /\ retries' = DefaultRetries
                     /\ attempt' = 0
                     /\ output_path' = <<>>
                     /\ gets' = 0
                     /\ sleeps' = 0
                     /\ log' = <<>>
    /\ last_response' = NoResponse
    /\ files_at_call' = files
    /\ UNCHANGED <<results, failed_log, delays, dirs, files, ok, Runs, Replay>>

\* lines 62-63
CheckOk ==
    /\ pc = "returned"
    /\ failed_log' = IF ShouldLog(ok)
                     THEN Append(failed_log, LedgerEntry(bird_name, url))
                     ELSE failed_log
    /\ pc' = "delay"
    /\ UNCHANGED <<CallLocals, rows, results, delays, dirs, files, attempt,
                   output_path, ok, gets, sleeps, log, raised>>
    /\ UNCHANGED <<last_response, files_at_call, Runs, Replay>>

\* a driver whose sleep is inside the "if not ok" block
DelayOnlyAfterFailure ==
    /\ pc = "delay"
    /\ delays' = IF ok THEN delays ELSE delays + 1
    /\ pc' = "next_row"
    /\ attempt' = 0
    /\ output_path' = <<>>
    /\ gets' = 0
    /\ sleeps' = 0
    /\ log' = <<>>
    /\ last_response' = NoResponse
    /\ files_at_call' = files
    /\ UNCHANGED <<CallLocals, rows, results, failed_log, dirs, files, ok, raised>>
    /\ UNCHANGED <<Runs, Replay>>

\* line 65; the locals of the call that has returned exist no longer, and the
\* record of what that call did is closed
Delay ==
    /\ pc = "delay"
    /\ delays' = delays + 1
    /\ pc' = "next_row"
    /\ attempt' = 0
    /\ output_path' = <<>>
    /\ gets' = 0
    /\ sleeps' = 0
    /\ log' = <<>>
    /\ last_response' = NoResponse
    /\ files_at_call' = files
    /\ UNCHANGED <<CallLocals, rows, results, failed_log, dirs, files, ok, raised>>
    /\ UNCHANGED <<Runs, Replay>>

\* line 57: the reader has no more rows
EndOfInput ==
    /\ pc = "next_row"
    /\ run = 2 => Len(rows) = Len(first.rows)
    /\ pc' = "done"
    /\ UNCHANGED <<CallLocals, DriverState, results, dirs, files, attempt,
                   output_path, ok, gets, sleeps, log, raised>>
    /\ UNCHANGED <<last_response, files_at_call, Runs, Replay>>

\* nothing read and nothing left behind yet
NoFirstRun ==
    [rows |-> <<>>, results |-> <<>>, failed_log |-> <<>>, files |-> <<>>,
     dirs |-> {}, raised |-> "none"]

\* The script, having ended (line 65 after the last row, or an exception), is
\* started again on the same file: lines 11-53 run again on the filesystem the
\* first run left; base_dir exists already and the ledger starts empty.
Rerun ==
    /\ run = 1
    /\ pc \in {"done", "crashed"}
    /\ run' = 2
    /\ first' = [rows |-> rows, results |-> results, failed_log |-> failed_log,
                 files |-> files, dirs |-> dirs, raised |-> raised]
    /\ pc' = "next_row"
    /\ rows' = <<>>
    /\ results' = <<>>
    /\ failed_log' = <<>>
    /\ delays' = 0
    /\ raised' = "none"
    /\ dirs' = MakedirsDirs(base_dir)
    /\ cursor' = 0
    /\ attempt' = 0
    /\ output_path' = <<>>
    /\ gets' = 0
    /\ sleeps' = 0
    /\ log' = <<>>
    /\ last_response' = NoResponse
    /\ files_at_call' = files
    /\ UNCHANGED <<CallLocals, files, ok, served>>

-----------------------------------------------------------------------------
(* Specifications *)

\* the state common to both: line 13 has created base_dir, line 53 the ledger
InitCommon ==
    /\ rows = <<>>
    /\ results = <<>>
    /\ failed_log = <<>>
    /\ dirs = {Resolve(base_dir)}
    /\ files = <<>>
    /\ attempt = 0
    /\ output_path = <<>>
    /\ ok = FALSE
    /\ gets = 0
    /\ sleeps = 0
    /\ log = <<>>
    /\ delays = 0
    /\ raised = "none"
    /\ last_response = NoResponse
    /\ files_at_call = <<>>
    /\ first = NoFirstRun
    /\ served = <<>>
    /\ cursor = 0

InitDriver ==
    /\ InitCommon
    /\ pc = "next_row"
    /\ bird_name = <<>>
    /\ url = <<>>
    /\ retries = DefaultRetries

Init == InitDriver /\ run = 0

Call == Makedirs \/ Validate \/ Attempt \/ Backoff \/ Exhausted

Next == ReadRow \/ CheckOk \/ Delay \/ EndOfInput \/ Call

Spec == Init /\ [][Next]_vars

InitCall ==
    /\ InitCommon
    /\ run = 0
    /\ pc = "makedirs"
    /\ bird_name \in CallNames
    /\ url \in CallUrls
    /\ retries \in CallRetries

NextCall == Makedirs \/ Validate \/ Attempt \/ Backoff \/ Exhausted

SpecCall == InitCall /\ [][NextCall]_vars

\* the script, or one call of the function on its own
InitAny == Init \/ InitCall

\* the return leads to line 62 when it was the driver that made the call
CheckOkOfDriver == rows # <<>> /\ CheckOk

\* line 57, for a file of at most MaxRecordsFair rows
ReadRowOfShortFile == Len(rows) < MaxRecordsFair /\ ReadRow

NextAny == ReadRowOfShortFile \/ CheckOkOfDriver \/ Delay \/ EndOfInput \/ Call

\* The program is one thread of blocking calls: as long as each request, sleep
\* and file operation returns, the next step is taken.
SpecFair == InitAny /\ [][NextAny]_vars /\ WF_vars(NextAny)

InitTwice == InitDriver /\ run = 1

NextTwice == ReadRow \/ CheckOk \/ Delay \/ EndOfInput \/ Call \/ Rerun

\* the script run twice on one file, the second run meeting the environment
\* of the first
SpecTwice == InitTwice /\ [][NextTwice]_vars

-----------------------------------------------------------------------------
(* Properties *)

\* the url is empty or does not begin with "http", written out on the characters
UrlRejected ==
    \/ url = <<>>
    \/ Len(url) < 4
    \/ <<url[1], url[2], url[3], url[4]>> # <<"h", "t", "t", "p">>

Failures == {"net", "http", "decode", "write"}

AllFailed == \A i \in 1..Len(log) : log[i] \in Failures

\* C1: a call whose url is empty or does not begin with "http" never enters
\* the retry loop: it issues no request and no backoff sleep at any point,
\* and when it has returned it has returned failure, whatever retries is.
C1_InvalidUrlNoNetwork ==
    UrlRejected =>
        /\ gets = 0
        /\ sleeps = 0
        /\ log = <<>>
        /\ pc \in {"makedirs", "validate", "returned"}
        /\ (pc = "returned" => ~ok)

C1_Witness ==
    /\ pc = "returned"
    /\ url = UrlFtp
    /\ retries = MaxRetries
    /\ ~ok
    /\ gets = 0

\* C2: for a valid url and a retries that is a count (retries >= 0), while
\* every request made so far was answered with a non-200 status: a request
\* is issued only when each earlier request has been followed by one backoff
\* sleep, and the call returns only after exactly retries requests, with
\* failure.
C2_AlwaysNon200 ==
    (~UrlRejected /\ retries >= 0 /\ (\A i \in 1..Len(log) : log[i] = "http")) =>
        /\ (pc = "loop" => sleeps = gets)
        /\ (pc = "except" => sleeps = gets - 1)
        /\ (pc = "returned" => gets = retries /\ ~ok /\ sleeps >= gets - 1)

C2_Witness ==
    /\ pc = "returned"
    /\ url = UrlA
    /\ retries >= 3
    /\ gets = retries
    /\ (\A i \in 1..Len(log) : log[i] = "http")
    /\ Len(log) = retries
    /\ ~ok

NameOf(row) == Strip(RowGet(row, "scientific_name").val)

UrlOf(row) == Strip(RowGet(row, "image_url").val)

RECURSIVE ExpectedLedger(_)
\* the entries of the first k records whose call returned failure, in order
ExpectedLedger(k) ==
    IF k = 0 THEN <<>>
    ELSE IF results[k] THEN ExpectedLedger(k - 1)
    ELSE Append(ExpectedLedger(k - 1),
                [scientific_name |-> NameOf(rows[k]), image_url |-> UrlOf(rows[k])])

\* C3: whenever the driver is between two records or has finished the file,
\* every record read has a result, the ledger is exactly the entries
\* {name, url} of the records whose call returned failure, in input order,
\* and a file exists at the output path of every record whose call returned
\* success.
C3_LedgerIsTheFailures ==
    pc \in {"next_row", "done"} =>
        /\ Len(results) = Len(rows)
        /\ failed_log = ExpectedLedger(Len(rows))
        /\ \A k \in 1..Len(rows) :
              results[k] => Resolve(OutputPath(NameOf(rows[k]))) \in DOMAIN files

\* a file of three records, only the second with an invalid url
C3_Witness ==
    /\ pc = "done"
    /\ Len(rows) = 3
    /\ rows[1] = Row(Str(NameAB), Str(<<SPACE>> \o UrlA))
    /\ rows[2] = Row(Str(NameAB), Str(UrlFtp))
    /\ rows[3] = Row(Str(<<"x">>), Str(UrlB))
    /\ results = <<TRUE, FALSE, TRUE>>
    /\ failed_log = <<[scientific_name |-> NameAB, image_url |-> UrlFtp]>>
    /\ files[Resolve(OutputPath(NameAB))].fmt = "JPEG"
    /\ files[Resolve(OutputPath(<<"x">>))].fmt = "JPEG"

\* C4: no failure that occurs while a record is acquired ends the batch:
\* no exception leaves download_and_resize_image.
C4_NoExceptionLeavesTheCall == raised # "FileExistsError"

FieldMissingOrBlank(f) == f.kind # "str" \/ Strip(f.val) = <<>>

\* C5: a record whose name or url field is missing or blank does not make the
\* driver raise, and a record whose url field is missing or blank gets the
\* result failure.
C5_MissingFieldTolerated ==
    \A k \in 1..Len(rows) :
        /\ (FieldMissingOrBlank(rows[k].scientific_name)
              \/ FieldMissingOrBlank(rows[k].image_url))
            => ~(k = Len(rows) /\ raised = "AttributeError")
        /\ (FieldMissingOrBlank(rows[k].image_url) /\ k <= Len(results))
            => ~results[k]

\* C6: one budget for every kind of failure: with retries a count
\* (retries >= 0) the requests of a call never exceed retries; every attempt,
\* whatever its outcome, is one request, and every failed attempt, whatever
\* its kind, has advanced the loop by one when the next attempt starts.
C6_OneBudget ==
    /\ (retries >= 0 => gets <= retries)
    /\ gets = Len(log)
    /\ (pc = "loop" => attempt = Len(log))
    /\ (pc = "except" => attempt = Len(log) - 1 /\ log[Len(log)] \in Failures)

C6_Witness ==
    /\ pc = "returned"
    /\ ~ok
    /\ retries = 3
    /\ log = <<"decode", "write", "net">>
    /\ gets = 3

\* C7: for a valid url a successful attempt is the last thing the call does:
\* an attempt that completes is the last entry of the log, is among the first
\* retries attempts, is followed by no request and no sleep, and the call has
\* then returned success; and a call returns success only after such an
\* attempt, so it returns failure only when all its attempts failed.
C7_SuccessIffFirstCompletedAttempt ==
    ~UrlRejected =>
        /\ \A i \in 1..Len(log) :
              log[i] = "ok" =>
                 /\ i = Len(log)
                 /\ i <= retries
                 /\ pc = "returned"
                 /\ ok
                 /\ gets = i
                 /\ sleeps = i - 1
        /\ (pc = "returned" /\ ok) => (log # <<>> /\ log[Len(log)] = "ok")
        /\ (pc = "returned" /\ ~ok) =>
              (AllFailed /\ Len(log) = (IF retries < 0 THEN 0 ELSE retries))

C7_Witness ==
    /\ pc = "returned"
    /\ ok
    /\ url = UrlA
    /\ retries = 3
    /\ log = <<"http", "ok">>
    /\ gets = 2
    /\ sleeps = 1

\* C8 as claimed: every call that returned failure made all retries attempts.
C8_OnlyExhaustionFails ==
    (pc \in {"returned", "delay"} /\ ~ok) => (gets = retries /\ Len(log) = retries)

\* C8, amended: a call that returned failure either had a url that fails
\* validation, and then made no attempt, or made all retries attempts and all
\* failed; the ledger entry the driver then appends is that call's.
C8_RejectedOrExhausted ==
    (pc \in {"returned", "delay"} /\ ~ok) =>
        /\ \/ (UrlRejected /\ gets = 0 /\ log = <<>>)
           \/ (~UrlRejected /\ gets = retries /\ Len(log) = retries /\ AllFailed)
        /\ pc = "delay" =>
              (failed_log # <<>>
               /\ failed_log[Len(failed_log)] =
                     [scientific_name |-> bird_name, image_url |-> url])

C8_Witness ==
    /\ pc = "delay"
    /\ ~ok
    /\ ~UrlRejected
    /\ gets = 3
    /\ Len(failed_log) = 2
    /\ failed_log[1].image_url = UrlFtp

\* C9: the entity's folder exists from the moment os.makedirs has run: before
\* the first request, during the loop, and when the call has returned, with
\* success or failure.
C9_FolderExists ==
    (pc \in {"validate", "loop", "except", "returned"} \/ gets > 0) =>
        Resolve(Subfolder(bird_name)) \in dirs

C9_Witness ==
    /\ pc = "returned"
    /\ ~ok
    /\ url = UrlFtp
    /\ bird_name = NameAB
    /\ Resolve(Subfolder(bird_name)) \in dirs
    /\ Resolve(Subfolder(bird_name)) # Resolve(base_dir)

Slash == <<SLASH>>

\* the name with every whitespace character replaced by an underscore
WhitespaceToUnderscore(n) ==
    [i \in 1..Len(n) |-> IF n[i] \in WhitespaceChars THEN "_" ELSE n[i]]

\* the name with every space character, and no other, replaced
SpaceToUnderscore(n) ==
    [i \in 1..Len(n) |-> IF n[i] = " " THEN "_" ELSE n[i]]

\* C10 as claimed: the path is <base>/<name with whitespace replaced by
\* underscore>/<the same>.jpg.
C10_PathWhitespaceReplaced ==
    output_path # <<>> =>
        output_path = base_dir \o Slash \o WhitespaceToUnderscore(bird_name)
                        \o Slash \o WhitespaceToUnderscore(bird_name) \o JpgSuffix

\* C10, amended: with s the name in which every space character (and no other
\* whitespace) is replaced by an underscore, the path the call computes is
\* <base>/<s>/<s>.jpg whenever s is not empty and neither begins nor ends with
\* "/"; it is <base>/.jpg for an empty s, <s>.jpg for an s that begins with
\* "/", and <base>/<s><s>.jpg for an s that ends with "/". It depends on no
\* url, and "Turdus merula" gives Images/Turdus_merula/Turdus_merula.jpg.
C10_PathFromNameAlone ==
    output_path # <<>> =>
        LET s == SpaceToUnderscore(bird_name)
        IN  /\ (s # <<>> /\ s[1] # SLASH /\ s[Len(s)] # SLASH) =>
                  output_path = base_dir \o Slash \o s \o Slash \o s \o JpgSuffix
            /\ s = <<>> => output_path = base_dir \o Slash \o JpgSuffix
            /\ (s # <<>> /\ s[1] = SLASH) => output_path = s \o JpgSuffix
            /\ (s # <<>> /\ s[1] # SLASH /\ s[Len(s)] = SLASH) =>
                  output_path = base_dir \o Slash \o s \o s \o JpgSuffix
            /\ bird_name = NameTurdus =>
                  output_path =
                     <<"I", "m", "a", "g", "e", "s", "/",
                       "T", "u", "r", "d", "u", "s", "_", "m", "e", "r", "u", "l", "a", "/",
                       "T", "u", "r", "d", "u", "s", "_", "m", "e", "r", "u", "l", "a",
                       ".", "j", "p", "g">>

C10_Witness ==
    /\ bird_name = <<"a", " ", " ", "b">>
    /\ url = UrlA
    /\ output_path = <<"I", "m", "a", "g", "e", "s", "/", "a", "_", "_", "b", "/",
                       "a", "_", "_", "b", ".", "j", "p", "g">>
    /\ pc = "returned"

\* C11: when the second of two runs on the same file, met by the same
\* environment, has ended, it has issued the requests of the first run, the
\* files are those the first run left, with the same contents, and the
\* ledger is the first run's ledger.
C11_SecondRunChangesNothing ==
    (run = 2 /\ pc \in {"done", "crashed"}) =>
        /\ files = first.files
        /\ failed_log = first.failed_log
        /\ results = first.results
        /\ cursor = Len(served)

C11_Witness ==
    /\ run = 2
    /\ pc = "done"
    /\ Len(rows) = 2
    /\ results = <<TRUE, FALSE>>
    /\ Len(failed_log) = 1
    /\ failed_log = first.failed_log
    /\ failed_log[1].image_url = UrlB
    /\ cursor = 4
    /\ DOMAIN files # {}
    /\ files = first.files

InCall == pc \in {"makedirs", "validate", "loop", "except"}

\* C12: records are handled one at a time in the order read. While the call
\* for the k-th row read is running, or has returned and not yet been followed
\* by its delay, it is the call for that row, the k-1 rows before it each have
\* their result and their delay, and no later row has been read; between two
\* records and at the end every row read has its result and exactly one delay,
\* whether its call succeeded or failed.
C12_OneRecordAtATime ==
    /\ (InCall \/ pc \in {"returned", "delay"}) =>
          /\ rows # <<>>
          /\ bird_name = NameOf(rows[Len(rows)])
          /\ url = UrlOf(rows[Len(rows)])
          /\ delays = Len(rows) - 1
          /\ Len(results) = (IF InCall THEN Len(rows) - 1 ELSE Len(rows))
          /\ Len(failed_log) <= (IF pc = "delay" THEN Len(rows) ELSE Len(rows) - 1)
    /\ pc \in {"next_row", "done"} =>
          /\ delays = Len(rows)
          /\ Len(results) = Len(rows)
          /\ gets = 0
          /\ sleeps = 0

C12_Witness ==
    /\ pc = "done"
    /\ Len(rows) = 3
    /\ results = <<TRUE, FALSE, TRUE>>
    /\ delays = 3
    /\ Len(failed_log) = 1
    /\ rows[2].image_url = Str(UrlB)

\* C13: a step changes the files only if it is an attempt whose request was
\* answered with status 200 and a body that decodes as an image; it changes
\* the file at the output path alone, and what it leaves there is the
\* decoded, resized and JPEG-encoded picture of that body (or, when the save
\* failed, a truncated file), never the body as received.
C13_WriteOnlyAfter200AndDecode ==
    [][files' # files =>
         /\ pc = "loop"
         /\ gets' = gets + 1
         /\ last_response'.kind = "response"
         /\ last_response'.status_code = 200
         /\ last_response'.image
         /\ DOMAIN files' = DOMAIN files \cup {Resolve(output_path)}
         /\ \A p \in DOMAIN files : p # Resolve(output_path) => files'[p] = files[p]
         /\ \/ files'[Resolve(output_path)] =
                  [fmt |-> "JPEG", of |-> last_response'.of]
            \/ /\ files'[Resolve(output_path)] = [fmt |-> "truncated", of |-> <<>>]
               /\ pc' = "except"
    ]_vars

C13_Witness ==
    /\ pc = "returned"
    /\ ok
    /\ log = <<"http", "decode", "ok">>
    /\ last_response.status_code = 200
    /\ files[Resolve(output_path)] = [fmt |-> "JPEG", of |-> UrlA]
    /\ bird_name = NameTurdus

\* C14: every failed attempt is followed by one backoff sleep, the last one
\* too: an attempt starts only when every attempt before it has failed and
\* been slept after, a call that returns success has slept once per failed
\* attempt, and a call with a valid url that returns failure has slept once
\* per attempt, retries times in all (for retries >= 0).
C14_SleepAfterEveryFailure ==
    /\ sleeps <= Len(log)
    /\ pc = "loop" => (sleeps = Len(log) /\ AllFailed)
    /\ pc = "except" => sleeps = Len(log) - 1
    /\ (pc = "returned" /\ ok) => sleeps = Len(log) - 1
    /\ (pc = "returned" /\ ~ok /\ ~UrlRejected) =>
          /\ sleeps = gets
          /\ retries >= 0 => sleeps = retries

C14_Witness ==
    /\ pc = "returned"
    /\ ~ok
    /\ retries = 3
    /\ sleeps = 3
    /\ gets = 3
    /\ log = <<"net", "http", "write">>

\* C15: a call that returned failure without any of its attempts reaching
\* img.save (the url was rejected, or every attempt failed at the request,
\* the status test or the decoding) has left every file as it was when the
\* call began; the file an earlier record wrote for the entity is still there
\* with its content, while the driver enters the entity in the ledger.
C15_FailureBeforeSaveKeepsFiles ==
    (pc \in {"returned", "delay"} /\ ~ok /\ (\A i \in 1..Len(log) : log[i] # "write")) =>
        /\ files = files_at_call
        /\ pc = "delay" =>
              failed_log[Len(failed_log)] =
                 [scientific_name |-> bird_name, image_url |-> url]

C15_Witness ==
    /\ pc = "delay"
    /\ ~ok
    /\ Len(rows) = 2
    /\ rows[1] = Row(Str(NameAB), Str(<<SPACE>> \o UrlA))
    /\ rows[2] = Row(Str(NameA_B), Str(UrlB))
    /\ results = <<TRUE, FALSE>>
    /\ log = <<"decode", "net", "http">>
    /\ files_at_call[Resolve(output_path)] = [fmt |-> "JPEG", of |-> UrlA]
    /\ files[Resolve(output_path)] = [fmt |-> "JPEG", of |-> UrlA]
    /\ failed_log = <<[scientific_name |-> NameA_B, image_url |-> UrlB]>>

\* the script has ended, or the call made on its own has returned
Ended == pc \in {"done", "crashed"} \/ (pc = "returned" /\ rows = <<>>)

\* C16: a call never issues more than max(retries, 0) requests; with
\* retries <= 0 and a valid url it returns failure without any request, its
\* folder created; every call that has begun ends, and so does the script on
\* every file.
C16_BoundedAndTerminating ==
    /\ [](/\ gets <= (IF retries > 0 THEN retries ELSE 0)
          /\ (retries <= 0 /\ ~UrlRejected /\ pc = "returned") =>
                (~ok /\ gets = 0 /\ sleeps = 0
                 /\ Resolve(Subfolder(bird_name)) \in dirs))
    /\ (InCall ~> (pc \in {"returned", "crashed"}))
    /\ <>Ended

C16_Witness ==
    /\ pc = "returned"
    /\ rows = <<>>
    /\ retries = 0 - 1
    /\ url = UrlA
    /\ bird_name = NameAB
    /\ ~ok
    /\ gets = 0
    /\ Resolve(Subfolder(bird_name)) \in dirs

PathOf(k) == Resolve(OutputPath(NameOf(rows[k])))

FolderOf(k) == Resolve(Subfolder(NameOf(rows[k])))

\* the records handled so far whose output path is p and whose call succeeded
SucceededAt(paths, p) == {k \in 1..Len(results) : results[k] /\ paths[k] = p}

\* the records handled so far whose output path is p and whose call failed
FailedAt(paths, p) == {k \in 1..Len(results) : ~results[k] /\ paths[k] = p}

Last(S) == CHOOSE k \in S : \A j \in S : j <= k

\* between two records: files, rows and results change nowhere else before
\* the next record is read
Handled == pc \in {"next_row", "done"}

\* every file lies in the folder of an entity handled so far and is that
\* entity's <sanitized name>.jpg, so that a folder holds at most one file
OneFilePerFolder ==
    LET folders == [k \in 1..Len(rows) |-> FolderOf(k)]
    IN  \A p \in DOMAIN files :
           \E k \in 1..Len(rows) :
              /\ p = folders[k] \o <<SpaceToUnderscore(NameOf(rows[k])) \o JpgSuffix>>
              /\ \A q \in DOMAIN files :
                    SubSeq(q, 1, Len(q) - 1) = folders[k] => q = p

\* C17 as claimed: one file per entity folder, and the file at a path holds
\* the image of the last record with that path whose call succeeded.
C17_FileOfLastSuccess ==
    Handled =>
        /\ OneFilePerFolder
        /\ LET paths == [k \in 1..Len(rows) |-> PathOf(k)]
           IN  \A k \in 1..Len(results) :
                  LET won == SucceededAt(paths, paths[k])
                  IN  won # {} =>
                         /\ paths[k] \in DOMAIN files
                         /\ files[paths[k]] =
                               [fmt |-> "JPEG", of |-> Quote(UrlOf(rows[Last(won)]))]

\* C17, amended: one file per entity folder, named <sanitized name>.jpg;
\* records whose names have the same sanitized form share the path, and the
\* file there holds the image of the last of them whose call succeeded unless
\* a later one of them failed, in which case the file may be left truncated
\* by that record's failed save.
C17_FileOfLastSuccessUnlessLaterFailure ==
    Handled =>
        /\ OneFilePerFolder
        /\ LET paths == [k \in 1..Len(rows) |-> PathOf(k)]
           IN  \A k \in 1..Len(results) :
                  LET won == SucceededAt(paths, paths[k])
                  IN  won # {} =>
                         /\ paths[k] \in DOMAIN files
                         /\ \/ files[paths[k]] =
                                  [fmt |-> "JPEG", of |-> Quote(UrlOf(rows[Last(won)]))]
                            \/ /\ files[paths[k]] = PartialFile
                               /\ \E j \in FailedAt(paths, paths[k]) : j > Last(won)

\* "a b" and "a_b" share Images/a_b/a_b.jpg; the second record's image is there
C17_Witness ==
    /\ pc = "done"
    /\ Len(rows) = 2
    /\ rows[1] = Row(Str(NameAB), Str(<<SPACE>> \o UrlA))
    /\ rows[2] = Row(Str(NameA_B), Str(UrlB))
    /\ results = <<TRUE, TRUE>>
    /\ PathOf(1) = PathOf(2)
    /\ DOMAIN files = {PathOf(1)}
    /\ files[PathOf(2)] = [fmt |-> "JPEG", of |-> UrlB]

=============================================================================
